---- MODULE Spec2Model ----
(***************************************************************************)
(* Model of net.sendFile (src/net/sendfile_linux.go): the splice loop that *)
(* moves bytes source -> intermediate pipe -> destination connection, the  *)
(* endpoint resolution (spliceableReader), the would-block handling        *)
(* (handleSpliceErr) and the deferred release of locks and pipe ends.      *)
(*                                                                         *)
(* Bytes are modelled one by one: a source holds the sequence 1..N, the    *)
(* kernel pipe is a FIFO of bytes, and every call records the bytes it     *)
(* took from its source and the bytes the kernel delivered for it.         *)
(* Sizes are scaled: one model byte stands for 64KB / MaxChunk bytes.      *)
(*                                                                         *)
(* The second part models proxy(l, r) of sendfile_linux_test.go: the two   *)
(* direction goroutines, each one sendFile call followed by its deferred   *)
(* half-closes and wg.Done, between a client and a server.                 *)
(***************************************************************************)
EXTENDS Integers, Sequences, FiniteSets, TLC

\* ---------------------------------------------------------------- bounds
\* The chunk ceiling of the model (the source's 64KB, scaled down).
MaxChunk == 3
\* How many would-block (EAGAIN) results the kernel may report on a ready
\* descriptor in one run.
MaxAgain == 2
\* Extra bytes a source may hold beyond two full chunks.
SrcExtra == 1

\* Bytes each source holds when two calls run concurrently.
ConcLen == 2

\* Bytes the client sends through the proxy, and bytes the server may send
\* back.
MaxMsg == 2
MaxReply == 1

\* ------------------------------------------------------------- constants
\* (mutant) a chunk ceiling above the pipe's capacity
maxSendfileSize_AbovePipe == 2 * MaxChunk
\* const maxSendfileSize int = 1024 * 64, scaled to MaxChunk model bytes.
maxSendfileSize == MaxChunk
\* "the kernel's max pipe buffer size ... 64KB on Linux 2.6 and above"
PipeCap == MaxChunk
\* var remain int64 = 1 << 62 (scaled to the checker's integer range).
DefaultRemain == 2 ^ 30
\* the longest source: two full chunks and a remainder
SrcMax == 2 * MaxChunk + SrcExtra

\* --------------------------------------------------------------- objects
Calls  == {1, 2}
Conns  == {"A", "B"}          \* *TCPConn values (and the netFD behind each)
Files  == {"F"}               \* *os.File values
Others == {"R"}               \* any other io.Reader (e.g. *bytes.Reader)
Readers == Conns \cup Files \cup Others

nil    == <<"nil">>
EAGAIN == <<"EAGAIN">>

VARIABLES
  pc,         \* pc[p]: position of call p in sendFile
  c,          \* c[p]: the destination connection (argument c *netFD)
  r,          \* r[p]: the reader (argument r, unwrapped from the LimitedReader)
  limited,    \* limited[p]: r was an *io.LimitedReader (lr != nil)
  lrN,        \* lrN[p]: the caller's lr.N
  lrN0,       \* lrN0[p]: lr.N at call time (history)
  remain,     \* remain[p]
  pipeLen,    \* pipeLen[p]
  written,    \* written[p]: the named result
  err,        \* err[p]: the named result
  handled,    \* handled[p]: the named result
  defers,     \* defers[p]: deferred calls, most recent first
  pipe,       \* pipe[p]: bytes held by the kernel in call p's pipe
  pipeFds,    \* pipeFds[p]: [made, open] the ends of the pipe of call p
  wlock,      \* wlock[x]: the calls holding connection x's write lock
  rlock,      \* rlock[x]: the calls holding connection x's read lock
  lockCnt,    \* lockCnt[p]: successful dst.lock / src.lock calls (history)
  unlockCnt,  \* unlockCnt[p]: dst.unlock / src.unlock calls (history)
  srcBuf,     \* srcBuf[x]: bytes reader x has still to produce before EOF
  failed,     \* failed[x]: descriptor x was closed / reset under the call
  again,      \* number of would-block results reported on a ready descriptor
  taken,      \* taken[p]: bytes moved out of the source by call p (history)
  recv,       \* recv[p]: bytes delivered to the destination by call p, and by
              \* the generic copy that follows it in a proxy direction (history)
  exit,       \* exit[p]: the path by which call p returned (history)
  hist        \* hist[p]: [cause, pend] what the kernel and the poller told call
              \* p: the fatal error a primitive or a wait gave (nil if none),
              \* and the sub-steps that would-blocked, were waited for with
              \* success and have not been issued again (history)

\* proxy(l, r) of sendfile_linux_test.go, with l = "A" and r = "B", and the
\* two peers of the half-close scenario
VARIABLES
  ppc,        \* position of proxy
  gpc,        \* gpc[g]: position of direction goroutine g (g = its sendFile call)
  wg,         \* the WaitGroup's counter
  shutRd,     \* shutRd[x]: the read half of x was shut down (CloseRead)
  shutWr,     \* shutWr[x]: the write half of x was shut down (CloseWrite)
  srcOpen,    \* srcOpen[x]: the peer of x may still send (no FIN received)
  cliSend,    \* bytes the client has still to send to l
  srvReply,   \* bytes the server has still to send to r
  srv         \* the server: [st, end, got] its state, how its read ended
              \* and the bytes it had read by then

pvars == <<ppc, gpc, wg, shutRd, shutWr, srcOpen, cliSend, srvReply, srv>>

vars == <<pc, c, r, limited, lrN, lrN0, remain, pipeLen, written, err, handled,
          defers, pipe, pipeFds, wlock, rlock, lockCnt, unlockCnt, srcBuf,
          failed, again, taken, recv, exit, hist, pvars>>

\* ---------------------------------------------------------------- helpers
Min(a, b) == IF a <= b THEN a ELSE b
Range(s) == {s[i] : i \in 1..Len(s)}
Count(s, x) == Cardinality({i \in 1..Len(s) : s[i] = x})
Bytes(n) == [i \in 1..n |-> i]
Take(s, n) == SubSeq(s, 1, n)
Drop(s, n) == SubSeq(s, n + 1, Len(s))

\* ------------------------------------------------------ endpoint resolution
\* The dynamic type of the reader value.
ReaderType(rd) ==
  IF rd \in Files THEN "*os.File"
  ELSE IF rd \in Conns THEN "*TCPConn"
  ELSE "other"

\* (mutant) every reader that is not a connection is taken for a file
spliceableReader_AnyReader(rd) ==
  IF rd \in Conns
    THEN [ok |-> TRUE, fd |-> rd, lock |-> "readLock",
          unlock |-> "readUnlock", wait |-> "WaitRead"]
    ELSE [ok |-> TRUE, fd |-> rd, lock |-> "doNothing",
          unlock |-> "func(){}", wait |-> "doNothing"]

\* (mutant) a connection source gets the file's no-op lock
spliceableReader_NoReadLock(rd) ==
  IF rd \in Conns \cup Files
    THEN [ok |-> TRUE, fd |-> rd, lock |-> "doNothing",
          unlock |-> "func(){}", wait |-> IF rd \in Conns THEN "WaitRead" ELSE "doNothing"]
    ELSE [ok |-> FALSE, fd |-> rd, lock |-> "none",
          unlock |-> "none", wait |-> "none"]

\* (mutant) a connection source is locked on its write half
spliceableReader_WriteLock(rd) ==
  IF rd \in Files
    THEN [ok |-> TRUE, fd |-> rd, lock |-> "doNothing",
          unlock |-> "func(){}", wait |-> "doNothing"]
  ELSE IF rd \in Conns
    THEN [ok |-> TRUE, fd |-> rd, lock |-> "writeLock",
          unlock |-> "writeUnlock", wait |-> "WaitRead"]
  ELSE [ok |-> FALSE, fd |-> rd, lock |-> "none",
        unlock |-> "none", wait |-> "none"]

\* spliceableReader(r, c): the source endpoint and ok.
spliceableReader(rd) ==
  IF ReaderType(rd) = "*os.File"
    THEN [ok |-> TRUE, fd |-> rd, lock |-> "doNothing",
          unlock |-> "func(){}", wait |-> "doNothing"]
  ELSE IF ReaderType(rd) = "*TCPConn"
    THEN [ok |-> TRUE, fd |-> rd, lock |-> "readLock",
          unlock |-> "readUnlock", wait |-> "WaitRead"]
  ELSE [ok |-> FALSE, fd |-> rd, lock |-> "none",
        unlock |-> "none", wait |-> "none"]

\* dst := &spliceable{c, c.sysfd, c.writeLock, c.writeUnlock, c.pd.WaitWrite}
dstSpliceable(conn) ==
  [ok |-> TRUE, fd |-> conn, lock |-> "writeLock",
   unlock |-> "writeUnlock", wait |-> "WaitWrite"]

\* ------------------------------------------- the connection layer's primitives
\* readLock / writeLock of a netFD: an error when the connection is closed,
\* otherwise mutual exclusion on that half ("acquired" or "blocked").
\* doNothing always returns nil.
LockResult(kind, x, holders) ==
  IF kind = "doNothing" THEN "nil"
  ELSE IF failed[x] THEN "error"
  ELSE IF holders = {} THEN "acquired"
  ELSE "blocked"

\* The calls that hold the lock a lock function of descriptor x takes.
LockHolders(kind, x) ==
  IF kind = "readLock" THEN rlock[x]
  ELSE IF kind = "writeLock" THEN wlock[x]
  ELSE {}

\* WaitRead / WaitWrite of the poller, doNothing for a file: the outcomes of
\* one wait on descriptor x.
WaitResult(kind, x) ==
  IF kind = "doNothing" THEN nil
  ELSE IF failed[x] THEN <<"errClosing">>
  ELSE nil

\* Descriptor x has nothing to read and its peer has not ended the stream:
\* a read would block for real.
NoData(x) == srcBuf[x] = <<>> /\ srcOpen[x] /\ ~shutRd[x] /\ ~failed[x]

\* The wait on descriptor x returns: WaitRead returns once x is readable
\* (data, end-of-stream or shutdown) or closed; WaitWrite and doNothing
\* return at once.
WaitReturns(kind, x) == kind = "WaitRead" => ~NoData(x)

\* ------------------------------------------------------------- the kernel
\* syscall.Splice(src.fd, nil, wPipeFd, nil, toRead, _): the results (n, err)
\* the kernel may give.  A move needs room in the pipe; with data to move and
\* no room the call blocks (no result).
SpliceIn(fd, inPipe, toRead) ==
  IF failed[fd] THEN {[n |-> -1, e |-> <<"EPIPE">>]}
  ELSE IF shutRd[fd] THEN {[n |-> 0, e |-> nil]}
  ELSE LET most == Min(Min(toRead, Len(srcBuf[fd])), PipeCap - Len(inPipe))
       IN  {[n |-> k, e |-> nil] : k \in 1..most}
           \cup (IF Len(srcBuf[fd]) = 0 /\ ~srcOpen[fd]
                   THEN {[n |-> 0, e |-> nil]} ELSE {})
           \cup (IF again < MaxAgain \/ NoData(fd)
                   THEN {[n |-> -1, e |-> EAGAIN]} ELSE {})

\* syscall.Splice(rPipeFd, nil, dst.fd, nil, pipeLen, _): the results (n, err).
SpliceOut(fd, inPipe, len) ==
  IF failed[fd] \/ shutWr[fd] THEN {[n |-> -1, e |-> <<"EPIPE">>]}
  ELSE {[n |-> k, e |-> nil] : k \in 0..Min(len, Len(inPipe))}
       \cup (IF again < MaxAgain THEN {[n |-> -1, e |-> EAGAIN]} ELSE {})

\* --------------------------------------------------------- sendFile, pieces
\* (mutant) only a negative cap is a no-op
IsNoOp_NegativeOnly(lim, n) == lim /\ n < 0
\* lines 31-36: the no-op short circuit of a bounded request
IsNoOp(lim, n) == lim /\ n <= 0

\* lines 29, 33: the initial budget
InitialRemain(lim, n) == IF lim THEN n ELSE DefaultRemain

\* lines 68-71
ToRead(rem) == IF maxSendfileSize >= rem THEN rem ELSE maxSendfileSize

\* (mutant) the capacity half of the guard is missing
CanRead_NoCapacity(rem, pl) == pl + ToRead(rem) > pl
\* line 73: "if we have stuff to read and we won't overflow pipeLen"
CanRead(rem, pl) ==
  /\ pl + ToRead(rem) > pl
  /\ pl + ToRead(rem) <= maxSendfileSize

\* line 67, then lines 73 and 88: where an iteration of the loop goes
LoopHead(rem, pl) ==
  IF rem > 0 \/ pl > 0
    THEN IF CanRead(rem, pl) THEN "read"
         ELSE IF pl > 0 THEN "write"
         ELSE "spin"
    ELSE "ret"

\* line 88, after the source step fell through
AfterSrc(rem, pl) == IF pl > 0 THEN "write" ELSE LoopHead(rem, pl)

\* lines 79 and 94: zero bytes and no error end the loop
IsBreak(n, e) == n = 0 /\ e = nil

\* (mutant) the count is assigned, not accumulated
WrittenAfter_Assign(w, n) == IF n > 0 THEN n ELSE w
\* (mutant) a destination move is taken to drain the pipe whole
PipeLenAfterOut_Drained(pl, n) == IF n > 0 THEN 0 ELSE pl
\* (mutant) the budget is not decremented by what was moved
RemainAfter_Kept(rem, n) == rem
\* lines 75-78
RemainAfter(rem, n) == IF n > 0 THEN rem - n ELSE rem
PipeLenAfterIn(pl, n) == IF n > 0 THEN pl + n ELSE pl
\* lines 90-93
WrittenAfter(w, n) == IF n > 0 THEN w + n ELSE w
PipeLenAfterOut(pl, n) == IF n > 0 THEN pl - n ELSE pl

\* (mutant) the primitive's error is dropped
WrapErr_Swallow(e) == nil
\* handleSpliceErr, lines 146-152: a non-nil error is wrapped
WrapErr(e) == IF e # nil THEN <<"OpError", "s", e>> ELSE nil

\* (mutant) the budget is never written back
WriteBack_Never(lim, n, rem) == n
\* lines 104-106
WriteBack(lim, n, rem) == IF lim THEN rem ELSE n

\* line 107
Handled(w) == w > 0

\* (mutant) the source lock's release is not deferred
DeferSrcUnlock_Missing(d) == d
\* (mutant) the destination lock's release is not deferred
DeferDstUnlock_Missing(d) == d
\* the defer statements of lines 53, 57, 63, 64 (most recent first)
DeferDstUnlock(d) == <<"dst.unlock">> \o d
DeferSrcUnlock(d) == <<"src.unlock">> \o d
DeferPipeClose(d) == <<"wPipe.Close", "rPipe.Close">> \o d

\* The deferred calls run at return: both pipe ends closed, locks released.
RunDefers(p, d) ==
  /\ defers' = [defers EXCEPT ![p] = <<>>]
  /\ pipeFds' = [pipeFds EXCEPT ![p].open =
         @ \ {e \in {"rPipe", "wPipe"} :
                 (e = "rPipe" /\ "rPipe.Close" \in Range(d))
              \/ (e = "wPipe" /\ "wPipe.Close" \in Range(d))}]
  /\ wlock' = [x \in Conns |->
                IF \/ ("dst.unlock" \in Range(d) /\ x = c[p])
                   \/ /\ "src.unlock" \in Range(d) /\ x = r[p]
                      /\ spliceableReader(r[p]).unlock = "writeUnlock"
                  THEN wlock[x] \ {p} ELSE wlock[x]]
  /\ rlock' = IF "src.unlock" \in Range(d)
                 /\ spliceableReader(r[p]).unlock = "readUnlock"
                THEN [rlock EXCEPT ![r[p]] = @ \ {p}] ELSE rlock
  /\ unlockCnt' = [unlockCnt EXCEPT ![p] =
         [dst |-> @.dst + Count(d, "dst.unlock"),
          src |-> @.src + Count(d, "src.unlock")]]

\* return w, e, h: set the results, run the deferred calls.
Return(p, w, e, h, path) ==
  /\ pc' = [pc EXCEPT ![p] = "done"]
  /\ written' = [written EXCEPT ![p] = w]
  /\ err' = [err EXCEPT ![p] = e]
  /\ handled' = [handled EXCEPT ![p] = h]
  /\ exit' = [exit EXCEPT ![p] = path]
  /\ RunDefers(p, defers[p])

\* ------------------------------------------------------ sendFile, the steps
\* lines 29-41: unwrap the LimitedReader, resolve the source.
Start(p) ==
  /\ pc[p] = "start"
  /\ remain' = [remain EXCEPT ![p] = InitialRemain(limited[p], lrN[p])]
  /\ IF IsNoOp(limited[p], lrN[p])
       THEN Return(p, 0, nil, TRUE, "noop")
     ELSE IF ~spliceableReader(r[p]).ok
       THEN Return(p, 0, nil, FALSE, "unsupported")
     ELSE /\ pc' = [pc EXCEPT ![p] = "lockDst"]
          /\ UNCHANGED <<written, err, handled, exit, defers, pipeFds, wlock,
                         rlock, unlockCnt>>
  /\ UNCHANGED <<pvars, hist, c, r, limited, lrN, lrN0, pipeLen, pipe, lockCnt, srcBuf,
                 failed, again, taken, recv>>

\* lines 50-53: dst.lock(), defer dst.unlock()
LockDst(p) ==
  /\ pc[p] = "lockDst"
  /\ LET dst == dstSpliceable(c[p])
         res == LockResult(dst.lock, dst.fd, LockHolders(dst.lock, dst.fd))
     IN  /\ res # "blocked"
         /\ IF res = "error"
              THEN /\ Return(p, 0, <<"errClosing">>, TRUE, "dstLock")
                   /\ UNCHANGED lockCnt
              ELSE /\ wlock' = [wlock EXCEPT ![dst.fd] = @ \cup {p}]
                   /\ lockCnt' = [lockCnt EXCEPT ![p].dst = @ + 1]
                   /\ defers' = [defers EXCEPT ![p] = DeferDstUnlock(@)]
                   /\ pc' = [pc EXCEPT ![p] = "lockSrc"]
                   /\ UNCHANGED <<written, err, handled, exit, pipeFds, rlock,
                                  unlockCnt>>
  /\ UNCHANGED <<pvars, hist, c, r, limited, lrN, lrN0, remain, pipeLen, pipe, srcBuf,
                 failed, again, taken, recv>>

\* lines 54-57: src.lock(), defer src.unlock()
LockSrc(p) ==
  /\ pc[p] = "lockSrc"
  /\ LET src == spliceableReader(r[p])
         res == LockResult(src.lock, src.fd, LockHolders(src.lock, src.fd))
     IN  /\ res # "blocked"
         /\ IF res = "error"
              THEN /\ Return(p, 0, <<"errClosing">>, TRUE, "srcLock")
                   /\ UNCHANGED lockCnt
              ELSE /\ rlock' = IF src.lock = "readLock"
                                 THEN [rlock EXCEPT ![src.fd] = @ \cup {p}]
                                 ELSE rlock
                   /\ wlock' = IF src.lock = "writeLock"
                                 THEN [wlock EXCEPT ![src.fd] = @ \cup {p}]
                                 ELSE wlock
                   /\ lockCnt' = [lockCnt EXCEPT ![p].src = @ + 1]
                   /\ defers' = [defers EXCEPT ![p] = DeferSrcUnlock(@)]
                   /\ pc' = [pc EXCEPT ![p] = "pipe"]
                   /\ UNCHANGED <<written, err, handled, exit, pipeFds,
                                  unlockCnt>>
  /\ UNCHANGED <<pvars, hist, c, r, limited, lrN, lrN0, remain, pipeLen, pipe, srcBuf,
                 failed, again, taken, recv>>

\* lines 59-66: os.Pipe(), the two deferred Close calls, pipeLen := 0
Pipe(p) ==
  /\ pc[p] = "pipe"
  /\ \E ok \in BOOLEAN :
       IF ~ok
         THEN /\ Return(p, 0, <<"OpError", "pipe", <<"EMFILE">>>>, FALSE, "pipe")
              /\ UNCHANGED pipeLen
         ELSE /\ pipeFds' = [pipeFds EXCEPT ![p] =
                    [made |-> TRUE, open |-> {"rPipe", "wPipe"}]]
              /\ defers' = [defers EXCEPT ![p] = DeferPipeClose(@)]
              /\ pipeLen' = [pipeLen EXCEPT ![p] = 0]
              /\ pc' = [pc EXCEPT ![p] = LoopHead(remain[p], 0)]
              /\ exit' = [exit EXCEPT ![p] =
                    IF LoopHead(remain[p], 0) = "ret" THEN "loopEnd" ELSE @]
              /\ UNCHANGED <<written, err, handled, wlock, rlock, unlockCnt>>
  /\ UNCHANGED <<pvars, hist, c, r, limited, lrN, lrN0, remain, pipe, lockCnt, srcBuf,
                 failed, again, taken, recv>>

\* lines 74-86: one source-to-pipe splice and what the loop does with it
Read(p) ==
  /\ pc[p] = "read"
  /\ LET src == spliceableReader(r[p])
     IN \E res \in SpliceIn(src.fd, pipe[p], ToRead(remain[p])) :
        LET n    == res.n
            rem1 == RemainAfter(remain[p], n)
            pl1  == PipeLenAfterIn(pipeLen[p], n)
            moved == IF n > 0 THEN Take(srcBuf[src.fd], n) ELSE <<>>
            next == IF IsBreak(n, res.e) THEN "ret"
                    ELSE IF res.e = EAGAIN THEN "readWait"
                    ELSE IF WrapErr(res.e) # nil THEN "ret"
                    ELSE AfterSrc(rem1, pl1)
        IN /\ srcBuf' = [srcBuf EXCEPT ![src.fd] = Drop(@, Len(moved))]
           /\ pipe' = [pipe EXCEPT ![p] = @ \o moved]
           /\ taken' = [taken EXCEPT ![p] = @ \o moved]
           /\ again' = IF res.e = EAGAIN /\ ~NoData(src.fd)
                         THEN again + 1 ELSE again
           /\ remain' = [remain EXCEPT ![p] = rem1]
           /\ pipeLen' = [pipeLen EXCEPT ![p] = pl1]
           /\ err' = [err EXCEPT ![p] =
                 IF ~IsBreak(n, res.e) /\ res.e # EAGAIN /\ WrapErr(res.e) # nil
                   THEN WrapErr(res.e) ELSE @]
           /\ pc' = [pc EXCEPT ![p] = next]
           /\ exit' = [exit EXCEPT ![p] =
                 IF next # "ret" THEN @
                 ELSE IF IsBreak(n, res.e) THEN "srcEOF"
                 ELSE IF res.e # nil THEN "srcErr"
                 ELSE "loopEnd"]
           /\ hist' = [hist EXCEPT ![p] =
                 [cause |-> IF res.e \notin {nil, EAGAIN} THEN res.e ELSE @.cause,
                  pend  |-> @.pend \ {"src"}]]
  /\ UNCHANGED <<pvars, c, r, limited, lrN, lrN0, written, handled, defers, pipeFds,
                 wlock, rlock, lockCnt, unlockCnt, failed, recv>>

\* handleSpliceErr(src, EAGAIN), lines 143-152: src.wait(), then line 83
ReadWait(p) ==
  /\ pc[p] = "readWait"
  /\ WaitReturns(spliceableReader(r[p]).wait, spliceableReader(r[p]).fd)
  /\ LET src  == spliceableReader(r[p])
         rerr == WrapErr(WaitResult(src.wait, src.fd))
         next == IF rerr # nil THEN "ret" ELSE AfterSrc(remain[p], pipeLen[p])
     IN /\ err' = [err EXCEPT ![p] = IF rerr # nil THEN rerr ELSE @]
        /\ pc' = [pc EXCEPT ![p] = next]
        /\ exit' = [exit EXCEPT ![p] =
              IF next # "ret" THEN @
              ELSE IF rerr # nil THEN "srcWait" ELSE "loopEnd"]
        /\ hist' = [hist EXCEPT ![p] =
              IF WaitResult(src.wait, src.fd) # nil
                THEN [@ EXCEPT !.cause = WaitResult(src.wait, src.fd)]
                ELSE [@ EXCEPT !.pend = @ \cup {"src"}]]
  /\ UNCHANGED <<pvars, c, r, limited, lrN, lrN0, remain, pipeLen, written, handled,
                 defers, pipe, pipeFds, wlock, rlock, lockCnt, unlockCnt,
                 srcBuf, failed, again, taken, recv>>

\* lines 89-101: one pipe-to-destination splice and what the loop does with it
Write(p) ==
  /\ pc[p] = "write"
  /\ LET dst == dstSpliceable(c[p])
     IN \E res \in SpliceOut(dst.fd, pipe[p], pipeLen[p]) :
        LET n    == res.n
            w1   == WrittenAfter(written[p], n)
            pl1  == PipeLenAfterOut(pipeLen[p], n)
            moved == IF n > 0 THEN Take(pipe[p], n) ELSE <<>>
            next == IF IsBreak(n, res.e) THEN "ret"
                    ELSE IF res.e = EAGAIN THEN "writeWait"
                    ELSE IF WrapErr(res.e) # nil THEN "ret"
                    ELSE LoopHead(remain[p], pl1)
        IN /\ pipe' = [pipe EXCEPT ![p] = Drop(@, Len(moved))]
           /\ recv' = [recv EXCEPT ![p] = @ \o moved]
           /\ again' = IF res.e = EAGAIN THEN again + 1 ELSE again
           /\ written' = [written EXCEPT ![p] = w1]
           /\ pipeLen' = [pipeLen EXCEPT ![p] = pl1]
           /\ err' = [err EXCEPT ![p] =
                 IF ~IsBreak(n, res.e) /\ res.e # EAGAIN /\ WrapErr(res.e) # nil
                   THEN WrapErr(res.e) ELSE @]
           /\ pc' = [pc EXCEPT ![p] = next]
           /\ exit' = [exit EXCEPT ![p] =
                 IF next # "ret" THEN @
                 ELSE IF IsBreak(n, res.e) THEN "dstZero"
                 ELSE IF res.e # nil THEN "dstErr"
                 ELSE "loopEnd"]
           /\ hist' = [hist EXCEPT ![p] =
                 [cause |-> IF res.e \notin {nil, EAGAIN} THEN res.e ELSE @.cause,
                  pend  |-> @.pend \ {"dst"}]]
  /\ UNCHANGED <<pvars, c, r, limited, lrN, lrN0, remain, handled, defers, pipeFds,
                 wlock, rlock, lockCnt, unlockCnt, srcBuf, failed, taken>>

\* handleSpliceErr(dst, EAGAIN), lines 143-152: dst.wait(), then line 98
WriteWait(p) ==
  /\ pc[p] = "writeWait"
  /\ LET dst  == dstSpliceable(c[p])
         werr == WrapErr(WaitResult(dst.wait, dst.fd))
         next == IF werr # nil THEN "ret" ELSE LoopHead(remain[p], pipeLen[p])
     IN /\ err' = [err EXCEPT ![p] = IF werr # nil THEN werr ELSE @]
        /\ pc' = [pc EXCEPT ![p] = next]
        /\ exit' = [exit EXCEPT ![p] =
              IF next # "ret" THEN @
              ELSE IF werr # nil THEN "dstWait" ELSE "loopEnd"]
        /\ hist' = [hist EXCEPT ![p] =
              IF WaitResult(dst.wait, dst.fd) # nil
                THEN [@ EXCEPT !.cause = WaitResult(dst.wait, dst.fd)]
                ELSE [@ EXCEPT !.pend = @ \cup {"dst"}]]
  /\ UNCHANGED <<pvars, c, r, limited, lrN, lrN0, remain, pipeLen, written, handled,
                 defers, pipe, pipeFds, wlock, rlock, lockCnt, unlockCnt,
                 srcBuf, failed, again, taken, recv>>

\* lines 104-107: write the budget back, return (and run the deferred calls)
Ret(p) ==
  /\ pc[p] = "ret"
  /\ lrN' = [lrN EXCEPT ![p] = WriteBack(limited[p], @, remain[p])]
  /\ Return(p, written[p], err[p], Handled(written[p]), exit[p])
  /\ UNCHANGED <<pvars, hist, c, r, limited, lrN0, remain, pipeLen, pipe, lockCnt, srcBuf,
                 failed, again, taken, recv>>

\* ---------------------------------------------------------- the environment
\* Descriptor x is closed or reset while a call that uses it is under way
\* (the only way a transfer is abandoned).
Active(p) == pc[p] \notin {"idle", "done"}

Fail(x) ==
  /\ ~failed[x]
  /\ \E p \in Calls : Active(p) /\ x \in {c[p], r[p]}
  /\ failed' = [failed EXCEPT ![x] = TRUE]
  /\ UNCHANGED <<pvars, pc, c, r, limited, lrN, lrN0, remain, pipeLen, written, err,
                 handled, defers, pipe, pipeFds, wlock, rlock, lockCnt,
                 unlockCnt, srcBuf, again, taken, recv, exit, hist>>

\* ------------------------------------------------------------ specification
\* The state before any call has started, for the given arguments.
InitCalls(started, dstOf, rdOf, lim, n, content) ==
  /\ pc = [p \in Calls |-> IF p \in started THEN "start" ELSE "idle"]
  /\ c = dstOf
  /\ r = rdOf
  /\ limited = lim
  /\ lrN = n
  /\ lrN0 = n
  /\ remain = [p \in Calls |-> 0]
  /\ pipeLen = [p \in Calls |-> 0]
  /\ written = [p \in Calls |-> 0]
  /\ err = [p \in Calls |-> nil]
  /\ handled = [p \in Calls |-> FALSE]
  /\ defers = [p \in Calls |-> <<>>]
  /\ pipe = [p \in Calls |-> <<>>]
  /\ pipeFds = [p \in Calls |-> [made |-> FALSE, open |-> {}]]
  /\ wlock = [x \in Conns |-> {}]
  /\ rlock = [x \in Conns |-> {}]
  /\ lockCnt = [p \in Calls |-> [dst |-> 0, src |-> 0]]
  /\ unlockCnt = [p \in Calls |-> [dst |-> 0, src |-> 0]]
  /\ srcBuf = content
  /\ failed = [x \in Readers |-> FALSE]
  /\ again = 0
  /\ taken = [p \in Calls |-> <<>>]
  /\ recv = [p \in Calls |-> <<>>]
  /\ exit = [p \in Calls |-> "none"]
  /\ hist = [p \in Calls |-> [cause |-> nil, pend |-> {}]]

\* No proxy and no peer: every source ends after the bytes it holds.
NoProxy ==
  /\ ppc = "none"
  /\ gpc = [g \in Calls |-> "none"]
  /\ wg = 0
  /\ shutRd = [x \in Readers |-> FALSE]
  /\ shutWr = [x \in Conns |-> FALSE]
  /\ srcOpen = [x \in Readers |-> FALSE]
  /\ cliSend = <<>>
  /\ srvReply = <<>>
  /\ srv = [st |-> "none", end |-> "none", got |-> <<>>]

InitWith(started, dstOf, rdOf, lim, n, content) ==
  /\ InitCalls(started, dstOf, rdOf, lim, n, content)
  /\ NoProxy

\* One call, sendFile(A, r): every reader type, every budget, every length.
Init ==
  \E rd \in Readers, lim \in BOOLEAN, n \in -1..(SrcMax + 1), len \in 0..SrcMax :
    /\ (~lim => n = 0)
    /\ InitWith({1},
                [p \in Calls |-> "A"],
                [p \in Calls |-> IF p = 1 THEN rd ELSE "R"],
                [p \in Calls |-> p = 1 /\ lim],
                [p \in Calls |-> IF p = 1 THEN n ELSE 0],
                [x \in Readers |-> IF x = rd THEN Bytes(len) ELSE <<>>])

Step(p) ==
  \/ Start(p)
  \/ LockDst(p)
  \/ LockSrc(p)
  \/ Pipe(p)
  \/ Read(p)
  \/ ReadWait(p)
  \/ Write(p)
  \/ WriteWait(p)
  \/ Ret(p)

Next ==
  \/ \E p \in Calls : Step(p)
  \/ \E x \in Conns \cup Files : Fail(x)

Spec == Init /\ [][Next]_vars

\* Two concurrent calls over the connections A and B and the file F: the same
\* destination, the same source, opposite directions, or unrelated.
ConcInit ==
  \E rd1 \in {"B", "F"}, c2 \in Conns, rd2 \in Conns \cup Files, lim2 \in BOOLEAN :
    InitWith({1, 2},
             [p \in Calls |-> IF p = 1 THEN "A" ELSE c2],
             [p \in Calls |-> IF p = 1 THEN rd1 ELSE rd2],
             [p \in Calls |-> p = 2 /\ lim2],
             [p \in Calls |-> IF p = 2 /\ lim2 THEN 1 ELSE 0],
             [x \in Readers |-> IF x \in {rd1, rd2} THEN Bytes(ConcLen) ELSE <<>>])

ConcSpec == ConcInit /\ [][Next]_vars

\* The scheduler runs every call that can take a step.
Fairness == \A p \in Calls : WF_vars(Step(p))

\* One call on a spliceable source of more than two chunks, every budget > 0.
LiveInit ==
  \E rd \in Conns \cup Files, lim \in BOOLEAN, n \in 0..(SrcMax + 1) :
    /\ (lim = (n > 0))
    /\ InitWith({1},
                [p \in Calls |-> "A"],
                [p \in Calls |-> IF p = 1 THEN rd ELSE "R"],
                [p \in Calls |-> p = 1 /\ lim],
                [p \in Calls |-> IF p = 1 THEN n ELSE 0],
                [x \in Readers |-> IF x = rd THEN Bytes(SrcMax) ELSE <<>>])

LiveSpec == LiveInit /\ [][Next]_vars /\ Fairness

\* ------------------------------------------------------------------ proxy
\* proxy(l, r *net.TCPConn): the two arguments.
lConn == "A"
rConn == "B"

\* line 109, io.Copy(l, r), in goroutine 1; line 115, io.Copy(r, l), in
\* goroutine 2.
CopyDst(g) == IF g = 1 THEN lConn ELSE rConn
CopySrc(g) == IF g = 1 THEN rConn ELSE lConn

\* (mutant) no goroutine shuts down a half of r
HalfCloses_OnlyL(g) ==
  IF g = 1
    THEN <<[conn |-> lConn, half |-> "write"], [conn |-> lConn, half |-> "write"]>>
    ELSE <<[conn |-> lConn, half |-> "read"], [conn |-> lConn, half |-> "read"]>>
\* (mutant) each goroutine shuts down the halves of the other direction
HalfCloses_Swapped(g) ==
  IF g = 1
    THEN <<[conn |-> rConn, half |-> "write"], [conn |-> lConn, half |-> "read"]>>
    ELSE <<[conn |-> rConn, half |-> "read"], [conn |-> lConn, half |-> "write"]>>
\* lines 107-108 and 113-114: the deferred half-closes of goroutine g, in the
\* order they run (last deferred first).
HalfCloses(g) ==
  IF g = 1
    THEN <<[conn |-> rConn, half |-> "read"], [conn |-> lConn, half |-> "write"]>>
    ELSE <<[conn |-> rConn, half |-> "write"], [conn |-> lConn, half |-> "read"]>>

\* (mutant) the WaitGroup counts one goroutine
WgAdd_One == Cardinality(Calls) - 1
\* line 105: wg.Add(2)
WgAdd == Cardinality(Calls)

\* lines 104-117: wg.Add(2) and the two go statements
ProxyGo ==
  /\ ppc = "start"
  /\ wg' = wg + WgAdd
  /\ gpc' = [g \in Calls |-> "copy"]
  /\ pc' = [p \in Calls |-> "start"]
  /\ ppc' = "wait"
  /\ UNCHANGED <<c, r, limited, lrN, lrN0, remain, pipeLen, written, err,
                 handled, defers, pipe, pipeFds, wlock, rlock, lockCnt,
                 unlockCnt, srcBuf, failed, again, taken, recv, exit, hist,
                 shutRd, shutWr, srcOpen, cliSend, srvReply, srv>>

\* line 118: wg.Wait()
ProxyWait ==
  /\ ppc = "wait"
  /\ wg = 0
  /\ ppc' = "closeR"
  /\ UNCHANGED <<pc, c, r, limited, lrN, lrN0, remain, pipeLen, written, err,
                 handled, defers, pipe, pipeFds, wlock, rlock, lockCnt,
                 unlockCnt, srcBuf, failed, again, taken, recv, exit, hist,
                 gpc, wg, shutRd, shutWr, srcOpen, cliSend, srvReply, srv>>

\* lines 102-103 at return: the deferred r.Close(), then the deferred l.Close()
ProxyClose ==
  /\ ppc \in {"closeR", "closeL"}
  /\ failed' = [failed EXCEPT ![IF ppc = "closeR" THEN rConn ELSE lConn] = TRUE]
  /\ ppc' = IF ppc = "closeR" THEN "closeL" ELSE "returned"
  /\ UNCHANGED <<pc, c, r, limited, lrN, lrN0, remain, pipeLen, written, err,
                 handled, defers, pipe, pipeFds, wlock, rlock, lockCnt,
                 unlockCnt, srcBuf, again, taken, recv, exit, hist,
                 gpc, wg, shutRd, shutWr, srcOpen, cliSend, srvReply, srv>>

\* io.Copy(dst, src) -> dst.ReadFrom(src): sendFile has returned; when it did
\* not handle the copy the generic copy takes over.
GoCopy(g) ==
  /\ gpc[g] = "copy"
  /\ pc[g] = "done"
  /\ gpc' = [gpc EXCEPT ![g] = IF handled[g] THEN "defer1" ELSE "generic"]
  /\ UNCHANGED <<pc, c, r, limited, lrN, lrN0, remain, pipeLen, written, err,
                 handled, defers, pipe, pipeFds, wlock, rlock, lockCnt,
                 unlockCnt, srcBuf, failed, again, taken, recv, exit, hist,
                 ppc, wg, shutRd, shutWr, srcOpen, cliSend, srvReply, srv>>

\* genericReadFrom: one Read from the source and the Write of what was read.
\* The Read blocks while the source has no data; it ends the copy at
\* end-of-stream or on an error, and so does a failed Write.
GoGeneric(g) ==
  /\ gpc[g] = "generic"
  /\ ~NoData(CopySrc(g))
  /\ rlock[CopySrc(g)] = {} /\ wlock[CopyDst(g)] = {}
  /\ IF failed[CopySrc(g)] \/ shutRd[CopySrc(g)] \/ srcBuf[CopySrc(g)] = <<>>
       THEN /\ gpc' = [gpc EXCEPT ![g] = "defer1"]
            /\ UNCHANGED <<srcBuf, recv>>
       ELSE \E k \in 1..Min(Len(srcBuf[CopySrc(g)]), MaxChunk) :
              /\ srcBuf' = [srcBuf EXCEPT ![CopySrc(g)] = Drop(@, k)]
              /\ IF failed[CopyDst(g)] \/ shutWr[CopyDst(g)]
                   THEN /\ gpc' = [gpc EXCEPT ![g] = "defer1"]
                        /\ UNCHANGED recv
                   ELSE /\ recv' = [recv EXCEPT ![g] =
                              @ \o Take(srcBuf[CopySrc(g)], k)]
                        /\ UNCHANGED gpc
  /\ UNCHANGED <<pc, c, r, limited, lrN, lrN0, remain, pipeLen, written, err,
                 handled, defers, pipe, pipeFds, wlock, rlock, lockCnt,
                 unlockCnt, failed, again, taken, exit, hist,
                 ppc, wg, shutRd, shutWr, srcOpen, cliSend, srvReply, srv>>

\* lines 107-108, 113-114 at the goroutine's return: CloseRead / CloseWrite
\* (shutdown of one half; on a closed descriptor it does nothing).
GoHalfClose(g) ==
  /\ gpc[g] \in {"defer1", "defer2"}
  /\ LET h == HalfCloses(g)[IF gpc[g] = "defer1" THEN 1 ELSE 2]
     IN  /\ shutRd' = IF h.half = "read" /\ ~failed[h.conn]
                        THEN [shutRd EXCEPT ![h.conn] = TRUE] ELSE shutRd
         /\ shutWr' = IF h.half = "write" /\ ~failed[h.conn]
                        THEN [shutWr EXCEPT ![h.conn] = TRUE] ELSE shutWr
  /\ gpc' = [gpc EXCEPT ![g] = IF @ = "defer1" THEN "defer2" ELSE "wgDone"]
  /\ UNCHANGED <<pc, c, r, limited, lrN, lrN0, remain, pipeLen, written, err,
                 handled, defers, pipe, pipeFds, wlock, rlock, lockCnt,
                 unlockCnt, srcBuf, failed, again, taken, recv, exit, hist,
                 ppc, wg, srcOpen, cliSend, srvReply, srv>>

\* lines 106, 112 at the goroutine's return: wg.Done()
GoDone(g) ==
  /\ gpc[g] = "wgDone"
  /\ wg' = wg - 1
  /\ gpc' = [gpc EXCEPT ![g] = "exited"]
  /\ UNCHANGED <<pc, c, r, limited, lrN, lrN0, remain, pipeLen, written, err,
                 handled, defers, pipe, pipeFds, wlock, rlock, lockCnt,
                 unlockCnt, srcBuf, failed, again, taken, recv, exit, hist,
                 ppc, shutRd, shutWr, srcOpen, cliSend, srvReply, srv>>

\* The client: it sends its bytes to l and then closes its sending side.
Client ==
  /\ srcOpen[lConn]
  /\ IF cliSend # <<>>
       THEN /\ srcBuf' = [srcBuf EXCEPT ![lConn] = Append(@, Head(cliSend))]
            /\ cliSend' = Tail(cliSend)
            /\ UNCHANGED srcOpen
       ELSE /\ srcOpen' = [srcOpen EXCEPT ![lConn] = FALSE]
            /\ UNCHANGED <<srcBuf, cliSend>>
  /\ UNCHANGED <<pc, c, r, limited, lrN, lrN0, remain, pipeLen, written, err,
                 handled, defers, pipe, pipeFds, wlock, rlock, lockCnt,
                 unlockCnt, failed, again, taken, recv, exit, hist,
                 ppc, gpc, wg, shutRd, shutWr, srvReply, srv>>

\* The server sends a byte to r (the server of the half-close scenario has
\* none to send).
ServerSend ==
  /\ srv.st \in {"reading", "ended"}
  /\ srvReply # <<>>
  /\ srcBuf' = [srcBuf EXCEPT ![rConn] = Append(@, Head(srvReply))]
  /\ srvReply' = Tail(srvReply)
  /\ UNCHANGED <<pc, c, r, limited, lrN, lrN0, remain, pipeLen, written, err,
                 handled, defers, pipe, pipeFds, wlock, rlock, lockCnt,
                 unlockCnt, failed, again, taken, recv, exit, hist,
                 ppc, gpc, wg, shutRd, shutWr, srcOpen, cliSend, srv>>

\* The server reads up to the end of the stream the proxy sends it: a clean
\* end after the write half of r was shut down or r was closed with nothing
\* unread, a reset when r was closed with unread bytes.  Then it closes.
Server ==
  /\ IF srv.st = "reading"
       THEN /\ shutWr[rConn] \/ failed[rConn]
            /\ srv' = [st  |-> "ended",
                       end |-> IF failed[rConn] /\ srcBuf[rConn] # <<>>
                                 THEN "reset" ELSE "eof",
                       got |-> recv[2]]
            /\ UNCHANGED srcOpen
       ELSE /\ srv.st = "ended"
            /\ srvReply = <<>>
            /\ srv' = [srv EXCEPT !.st = "closed"]
            /\ srcOpen' = [srcOpen EXCEPT ![rConn] = FALSE]
  /\ UNCHANGED <<pc, c, r, limited, lrN, lrN0, remain, pipeLen, written, err,
                 handled, defers, pipe, pipeFds, wlock, rlock, lockCnt,
                 unlockCnt, srcBuf, failed, again, taken, recv, exit, hist,
                 ppc, gpc, wg, shutRd, shutWr, cliSend, srvReply>>

\* proxy(l, r) between a client that sends m bytes and a server that sends k
\* bytes; both directions are unbounded copies.
ProxyInitWith(m, k) ==
    /\ InitCalls({},
                 [g \in Calls |-> CopyDst(g)],
                 [g \in Calls |-> CopySrc(g)],
                 [g \in Calls |-> FALSE],
                 [g \in Calls |-> 0],
                 [x \in Readers |-> <<>>])
    /\ ppc = "start"
    /\ gpc = [g \in Calls |-> "none"]
    /\ wg = 0
    /\ shutRd = [x \in Readers |-> FALSE]
    /\ shutWr = [x \in Conns |-> FALSE]
    /\ srcOpen = [x \in Readers |-> x \in Conns]
    /\ cliSend = Bytes(m)
    /\ srvReply = Bytes(k)
    /\ srv = [st |-> "reading", end |-> "none", got |-> <<>>]

ProxyInit == \E m \in 0..MaxMsg, k \in 0..MaxReply : ProxyInitWith(m, k)

GoStep(g) ==
  \/ Step(g)
  \/ GoCopy(g)
  \/ GoGeneric(g)
  \/ GoHalfClose(g)
  \/ GoDone(g)

ProxyStep ==
  \/ ProxyGo
  \/ ProxyWait
  \/ ProxyClose

ProxyNext ==
  \/ ProxyStep
  \/ \E g \in Calls : GoStep(g)
  \/ Client
  \/ ServerSend
  \/ Server

ProxySpec == ProxyInit /\ [][ProxyNext]_vars

\* The half-close scenario: the client sends up to MaxMsg bytes and closes,
\* the server sends nothing and closes after it read end-of-stream.
HalfCloseInit == \E m \in 0..MaxMsg : ProxyInitWith(m, 0)

HalfCloseNext ==
  \/ ProxyStep
  \/ \E g \in Calls : GoStep(g)
  \/ Client
  \/ Server

\* The scheduler runs every goroutine that can take a step, and the peers
\* do what the scenario says they do.
HalfCloseFairness ==
  /\ WF_vars(ProxyStep)
  /\ \A g \in Calls : WF_vars(GoStep(g))
  /\ WF_vars(Client)
  /\ WF_vars(Server)

HalfCloseSpec == HalfCloseInit /\ [][HalfCloseNext]_vars /\ HalfCloseFairness

\* ----------------------------------------------------------------- claims
Done(p) == pc[p] = "done"

\* N: the number of bytes the source of call p produces before end-of-stream
\* (what the call took so far and what the source still holds).
SrcLen(p) == Len(taken[p]) + Len(srcBuf[r[p]])

\* The call met no fatal condition: neither descriptor was closed or reset,
\* the pipe was created, and no destination move reported zero bytes.
Clean(p) ==
  /\ ~failed[c[p]]
  /\ ~failed[r[p]]
  /\ pipeFds[p].made
  /\ exit[p] # "dstZero"

Spliceable(p) == r[p] \in Conns \cup Files

\* C1: with an unbounded budget (no LimitedReader), a source of N bytes and a
\* destination that accepts writes (partial moves and would-block allowed, no
\* fatal error), sendFile returns written = N and a nil error, and the
\* destination received exactly the N source bytes in source order.
C1_FullBudget ==
  \A p \in Calls :
    (Done(p) /\ ~limited[p] /\ Spliceable(p) /\ Clean(p))
      => /\ written[p] = SrcLen(p)
         /\ err[p] = nil
         /\ srcBuf[r[p]] = <<>>
         /\ recv[p] = Bytes(SrcLen(p))

\* a source of more than two chunks was copied whole, with partial moves and
\* would-block results on the way
C1_Witness ==
  /\ Done(1) /\ ~limited[1] /\ Spliceable(1) /\ Clean(1)
  /\ written[1] = SrcMax
  /\ again = MaxAgain

\* C2: a bounded request with cap B > 0 on a source of N bytes, no fatal
\* error: if B <= N exactly B bytes are delivered and lr.N is 0 on return;
\* if B > N exactly N bytes are delivered and lr.N is B - N on return.
C2_BoundedBudget ==
  \A p \in Calls :
    (Done(p) /\ limited[p] /\ lrN0[p] > 0 /\ Spliceable(p) /\ Clean(p))
      => IF lrN0[p] <= SrcLen(p)
           THEN recv[p] = Bytes(lrN0[p]) /\ lrN[p] = 0
           ELSE recv[p] = Bytes(SrcLen(p)) /\ lrN[p] = lrN0[p] - SrcLen(p)

\* C3: whenever sendFile returns handled = false it did no work: no byte was
\* taken from the source, none was delivered, and lr.N is as at call time.
\* (Checked on the returns the kernel can bring about: a zero-byte move out
\* of a pipe that holds bytes is left aside.)
C3_NotHandledNoWork ==
  \A p \in Calls :
    (Done(p) /\ ~handled[p] /\ exit[p] # "dstZero")
      => /\ taken[p] = <<>>
         /\ recv[p] = <<>>
         /\ lrN[p] = lrN0[p]

\* C4: a bounded request whose cap is zero or negative returns (0, nil, true)
\* at once: the call is never anywhere but before or after that return, and
\* it took no lock, made no pipe, called no primitive, left lr.N alone.
C4_NoOp ==
  \A p \in Calls :
    (limited[p] /\ lrN0[p] <= 0)
      => /\ pc[p] \in {"idle", "start", "done"}
         /\ lockCnt[p] = [dst |-> 0, src |-> 0]
         /\ ~pipeFds[p].made
         /\ taken[p] = <<>> /\ recv[p] = <<>>
         /\ lrN[p] = lrN0[p]
         /\ Done(p) => (written[p] = 0 /\ err[p] = nil /\ handled[p])

C4_Witness ==
  Done(1) /\ limited[1] /\ lrN0[1] < 0 /\ r[1] \in Conns /\ handled[1]

\* C5 as claimed: a reader that is neither a file nor a connection gives
\* handled = false, 0 bytes and a nil error for every budget, with no lock
\* taken and no pipe made.
C5_Original ==
  \A p \in Calls :
    (Done(p) /\ r[p] \in Others)
      => /\ ~handled[p] /\ written[p] = 0 /\ err[p] = nil
         /\ lockCnt[p] = [dst |-> 0, src |-> 0]
         /\ ~pipeFds[p].made

\* C5 (amended): a reader that is neither a file nor a connection gives 0
\* bytes and a nil error with no lock taken and no pipe made for every
\* budget; handled is false when the budget is unbounded or a positive cap,
\* and true when the cap is zero or negative (the no-op return comes first).
C5_Unsupported ==
  \A p \in Calls :
    (r[p] \in Others /\ pc[p] # "idle")
      => /\ pc[p] \in {"start", "done"}
         /\ lockCnt[p] = [dst |-> 0, src |-> 0]
         /\ ~pipeFds[p].made
         /\ Done(p) =>
              /\ written[p] = 0 /\ err[p] = nil
              /\ handled[p] = (limited[p] /\ lrN0[p] <= 0)

C5_Witness ==
  Done(1) /\ r[1] \in Others /\ limited[1] /\ lrN0[1] > 0 /\ ~handled[1]

C7_PipeCapacity ==
  \A p \in Calls :
    /\ 0 <= pipeLen[p] /\ pipeLen[p] <= maxSendfileSize
    /\ Len(pipe[p]) = pipeLen[p]
    /\ pc[p] = "read" =>
         /\ ToRead(remain[p]) > 0
         /\ pipeLen[p] + ToRead(remain[p]) <= maxSendfileSize

\* a source move is asked for while the pipe still holds bytes
C7_Witness ==
  pc[1] = "read" /\ pipeLen[1] > 0 /\ remain[1] > 0

\* C9: when sendFile has returned, by whatever path, each lock it acquired
\* was released exactly once, a lock it did not acquire was not released,
\* it holds no lock, and both ends of the pipe, if made, are closed; until
\* it returns nothing is released.
C9_Release ==
  \A p \in Calls :
    /\ Done(p) =>
         /\ unlockCnt[p] = lockCnt[p]
         /\ lockCnt[p].dst <= 1 /\ lockCnt[p].src <= 1
         /\ \A x \in Conns : p \notin wlock[x] /\ p \notin rlock[x]
         /\ pipeFds[p].open = {}
         /\ defers[p] = <<>>
    /\ ~Done(p) =>
         /\ unlockCnt[p] = [dst |-> 0, src |-> 0]
         /\ pipeFds[p].made => pipeFds[p].open = {"rPipe", "wPipe"}

\* the source lock failed with the destination lock held: one release
C9_Witness ==
  /\ Done(1) /\ exit[1] = "srcLock"
  /\ lockCnt[1] = [dst |-> 1, src |-> 0]
  /\ unlockCnt[1] = [dst |-> 1, src |-> 0]

\* C8: with a pipe that holds at least maxSendfileSize bytes and a source
\* move that blocks while the pipe has no room, every started transfer,
\* also of far more than one chunk, returns: it never stalls on its own
\* pipe (would-block waits end, the scheduler keeps running the call).
C8_NoStall ==
  \A p \in Calls : (pc[p] = "start") ~> Done(p)

\* a bounded transfer of more than two chunks ran to the end of its budget
C8_Witness ==
  /\ Done(1) /\ limited[1] /\ exit[1] = "loopEnd"
  /\ Len(recv[1]) = SrcMax /\ SrcMax > 2 * maxSendfileSize

\* From the acquisition of the destination's write lock to the return.
HoldsDst(p) ==
  pc[p] \in {"lockSrc", "pipe", "read", "readWait", "write", "writeWait", "ret"}
\* From the acquisition of the source's read lock to the return.
HoldsSrc(p) ==
  pc[p] \in {"pipe", "read", "readWait", "write", "writeWait", "ret"}

\* C10: of two concurrent calls with the same destination connection at most
\* one is between the write lock's acquisition and its return, and of two
\* with the same connection as source at most one is between the read
\* lock's acquisition and its return; no lock has two holders.
C10_PerSideExclusion ==
  /\ \A p, q \in Calls :
        p # q =>
          /\ (c[p] = c[q]) => ~(HoldsDst(p) /\ HoldsDst(q))
          /\ (r[p] = r[q] /\ r[p] \in Conns) => ~(HoldsSrc(p) /\ HoldsSrc(q))
  /\ \A x \in Conns : Cardinality(wlock[x]) <= 1 /\ Cardinality(rlock[x]) <= 1

\* one call reads connection B while the other writes connection B, both in
\* their loops with bytes moved
C10_Witness ==
  /\ r[1] = "B" /\ c[2] = "B"
  /\ pc[1] \in {"read", "write"} /\ pc[2] \in {"read", "write"}
  /\ taken[1] # <<>> /\ taken[2] # <<>>

\* two calls with one destination: the second waits for the write lock
C10_Contended ==
  /\ c[1] = c[2] /\ r[1] = r[2] /\ r[1] \in Conns
  /\ HoldsSrc(1) /\ pc[2] = "lockDst" /\ taken[1] # <<>>

C16_LockFailure ==
  \A p \in Calls :
    (Done(p) /\ exit[p] \in {"dstLock", "srcLock"})
      => /\ written[p] = 0 /\ err[p] # nil /\ handled[p]
         /\ ~pipeFds[p].made
         /\ taken[p] = <<>> /\ recv[p] = <<>>
         /\ lrN[p] = lrN0[p]
         /\ exit[p] = "dstLock" =>
              lockCnt[p].dst = 0 /\ unlockCnt[p].dst = 0
         /\ exit[p] = "srcLock" =>
              /\ lockCnt[p] = [dst |-> 1, src |-> 0]
              /\ unlockCnt[p] = [dst |-> 1, src |-> 0]
              /\ p \notin wlock[c[p]]

\* the source connection was closed before a bounded call could lock it
C16_Witness ==
  /\ Done(1) /\ exit[1] = "srcLock" /\ limited[1] /\ lrN0[1] > 0
  /\ handled[1] /\ wlock[c[1]] = {}

\* The budget the loop starts from: lr.N, or the copy-until-EOF default.
Budget(p) == IF limited[p] THEN lrN0[p] ELSE DefaultRemain
InLoop(p) == pc[p] \in {"read", "readWait", "write", "writeWait", "ret"}

\* C18: at every point of the loop the initial budget = remain + pipeLen +
\* written; remain is never negative, written never exceeds the cap of a
\* bounded request, and written never exceeds the bytes taken from the
\* source.
C18_Conservation ==
  \A p \in Calls :
    InLoop(p) =>
      /\ Budget(p) = remain[p] + pipeLen[p] + written[p]
      /\ remain[p] >= 0
      /\ limited[p] => written[p] <= lrN0[p]
      /\ written[p] <= Len(taken[p])
      /\ Len(taken[p]) = written[p] + pipeLen[p]

\* in the loop of a bounded request with bytes in all three places
C18_Witness ==
  /\ InLoop(1) /\ limited[1]
  /\ remain[1] > 0 /\ pipeLen[1] > 0 /\ written[1] > 0

\* C19: whenever sendFile returns a nil error after entering the loop the
\* pipe is empty: every byte taken from the source was delivered.
\* (Checked on the returns the kernel can bring about: a zero-byte move out
\* of a pipe that holds bytes is left aside.)
C19_NoSilentLoss ==
  \A p \in Calls :
    (Done(p) /\ err[p] = nil /\ pipeFds[p].made /\ exit[p] # "dstZero")
      => /\ pipeLen[p] = 0
         /\ pipe[p] = <<>>
         /\ recv[p] = taken[p]

\* C14: a would-block result moves nothing (the counters still agree with
\* what the kernel holds), the error sendFile keeps is never the would-block
\* status, and after the wait succeeded the loop goes on and issues the
\* sub-step that would-blocked again: sendFile does not return a nil error
\* with such a sub-step not retried.
\* (Checked on the returns the kernel can bring about: a zero-byte move out
\* of a pipe that holds bytes is left aside.)
C14_WouldBlock ==
  \A p \in Calls :
    /\ err[p] # EAGAIN /\ err[p] # <<"OpError", "s", EAGAIN>>
    /\ pc[p] \in {"readWait", "writeWait"} =>
         /\ Budget(p) - remain[p] = Len(taken[p])
         /\ pipeLen[p] = Len(pipe[p])
         /\ written[p] = Len(recv[p])
    /\ (Done(p) /\ err[p] = nil /\ exit[p] # "dstZero") => hist[p].pend = {}

\* C15: once a primitive call has given an error other than would-block, or
\* a wait has failed, sendFile only returns: it is past the loop (no further
\* primitive call or wait, no retry), its error is that error wrapped, and
\* its written count is what the destination moves had delivered.
C15_FatalTerminal ==
  \A p \in Calls :
    hist[p].cause # nil =>
      /\ pc[p] \in {"ret", "done"}
      /\ err[p] = <<"OpError", "s", hist[p].cause>>
      /\ written[p] = Len(recv[p])
      /\ exit[p] \in {"srcErr", "srcWait", "dstErr", "dstWait"}

\* the wait for the source failed after bytes had been delivered
C15_Witness ==
  /\ Done(1) /\ exit[1] = "srcWait"
  /\ hist[1].cause = <<"errClosing">>
  /\ written[1] > 0

\* The calls that hold the lock call p is waiting for (none when p is not
\* at a lock acquisition or the lock is free).
WaitsFor(p) ==
  IF pc[p] = "lockDst"
    THEN LET dst == dstSpliceable(c[p])
         IN  IF LockResult(dst.lock, dst.fd, LockHolders(dst.lock, dst.fd)) = "blocked"
               THEN LockHolders(dst.lock, dst.fd) ELSE {}
  ELSE IF pc[p] = "lockSrc"
    THEN LET src == spliceableReader(r[p])
         IN  IF LockResult(src.lock, src.fd, LockHolders(src.lock, src.fd)) = "blocked"
               THEN LockHolders(src.lock, src.fd) ELSE {}
  ELSE {}

\* C20: in no reachable state of concurrent calls (opposite directions, a
\* shared source, a shared destination) is there a group of calls each of
\* which waits for a lock held by a call of the group; in particular the
\* calls are never all blocked on one another's locks.
C20_NoLockCycle ==
  \A S \in SUBSET Calls :
    S # {} => \E p \in S : WaitsFor(p) \cap S = {}

\* A-to-B and B-to-A at once, each holding its destination's write lock and
\* its source's read lock
C20_Witness ==
  /\ c[1] = r[2] /\ r[1] = c[2]
  /\ 1 \in wlock[c[1]] /\ 1 \in rlock[r[1]]
  /\ 2 \in wlock[c[2]] /\ 2 \in rlock[r[2]]

\* Direction g of the proxy has not finished its copy.
Copying(g) == gpc[g] \in {"copy", "generic"}

\* C12: proxy closes l or r, and returns, only after both direction
\* goroutines have run to their end; no connection is fully closed while a
\* direction is still copying.
C12_ProxyJoin ==
  (ppc \in {"closeR", "closeL", "returned"} \/ failed[lConn] \/ failed[rConn])
    => \A g \in Calls : gpc[g] = "exited"

\* proxy returned after both directions moved bytes
C12_Witness ==
  /\ ppc = "returned" /\ failed[lConn] /\ failed[rConn]
  /\ recv[1] # <<>> /\ Len(recv[2]) = MaxMsg

\* C13: when the client sends M bytes and closes, and the server sends
\* nothing and closes after it read end-of-stream, then eventually proxy has
\* returned with both goroutines at their end, the server has seen a clean
\* end-of-stream, and it has read exactly the M bytes.  (A zero-byte move
\* out of a pipe that holds bytes, which the kernel does not produce, is
\* left aside for the byte count.)
C13_HalfClose ==
  \A m \in 0..MaxMsg :
    (ppc = "start" /\ cliSend = Bytes(m) /\ srcBuf[lConn] = <<>>
       /\ srvReply = <<>>)
      ~> /\ ppc = "returned"
         /\ \A g \in Calls : gpc[g] = "exited"
         /\ srv.st = "closed" /\ srv.end = "eof"
         /\ exit[2] # "dstZero" => srv.got = Bytes(m)

\* the scenario ran to its end with MaxMsg bytes spliced to the server and
\* nothing sent back
C13_Witness ==
  /\ ppc = "returned"
  /\ srv.st = "closed" /\ srv.end = "eof" /\ srv.got = Bytes(MaxMsg)
  /\ written[2] = MaxMsg
  /\ srvReply = <<>> /\ taken[1] = <<>> /\ recv[1] = <<>>

\* C17: while a direction is still copying, the write half of its
\* destination and the read half of its source are open, whatever the other
\* direction has done; no splice and no wait of a direction fails; and when
\* proxy returns every byte the server sent has left r and the pipe, i.e. the
\* direction that was still active was not cut short.
C17_HalfCloseIndependence ==
  /\ \A g \in Calls :
       /\ Copying(g) => ~shutWr[CopyDst(g)] /\ ~shutRd[CopySrc(g)]
       /\ hist[g].cause = nil
  /\ (ppc = "returned" /\ exit[1] # "dstZero")
       => srcBuf[rConn] = <<>> /\ pipe[1] = <<>>

\* direction 2 has finished and shut down its halves while direction 1 is in
\* the middle of a transfer
C17_Witness ==
  /\ gpc[2] = "exited" /\ shutWr[rConn] /\ shutRd[lConn]
  /\ pc[1] = "write" /\ pipe[1] # <<>>

====
